---- MODULE Spec2Model ----
(***************************************************************************)
(* Model of the Headers codec of hyper_serde (src/src/lib.rs):             *)
(*   impl Deserialize for De<Headers>      (lines 311-383)                 *)
(*   impl Serialize for Ser<'a, Headers>   (lines 385-418)                 *)
(* Text is a sequence of code points, a byte string a sequence of 0..255.  *)
(* A generic serialization value is a record tagged by its variant.        *)
(***************************************************************************)
EXTENDS Integers, Sequences, FiniteSets, TLC

\* ------------------------------------------------------------ bounds
MaxNames == 2
MaxVals == 2
MaxEntries == 3
MaxElems == 2

\* cmp::min(visitor.size_hint().0, 64)
Clamp == 64

Min(a, b) == IF a < b THEN a ELSE b

\* ------------------------------------------------------------ generic values
Unit == [t |-> "unit", v |-> <<>>]
BoolV(b) == [t |-> "bool", v |-> <<b>>]
IntV(n) == [t |-> "int", v |-> <<n>>]
FloatV(n) == [t |-> "float", v |-> <<n>>]
Text(s) == [t |-> "text", v |-> s]
Bytes(b) == [t |-> "bytes", v |-> b]
SeqV(h, items) == [t |-> "seq", hint |-> h, v |-> items]
MapV(h, entries) == [t |-> "map", hint |-> h, v |-> entries]

Ok(x) == [kind |-> "ok", v |-> x]
Err(ty, un, ex) == [kind |-> "err", type |-> ty, unexpected |-> un, expecting |-> ex]

\* ------------------------------------------------------------ UTF-8
\* str::as_bytes / String::into_bytes: the UTF-8 encoding of a text
Utf8Char(c) ==
    IF c < 128 THEN <<c>>
    ELSE IF c < 2048 THEN <<192 + (c \div 64), 128 + (c % 64)>>
    ELSE IF c < 65536 THEN <<224 + (c \div 4096), 128 + ((c \div 64) % 64), 128 + (c % 64)>>
    ELSE <<240 + (c \div 262144), 128 + ((c \div 4096) % 64),
           128 + ((c \div 64) % 64), 128 + (c % 64)>>

RECURSIVE as_bytes(_)
as_bytes(s) == IF s = <<>> THEN <<>> ELSE Utf8Char(Head(s)) \o as_bytes(Tail(s))

IsCont(b) == b >= 128 /\ b <= 191

Utf8Width(b) ==
    IF b < 128 THEN 1
    ELSE IF b >= 194 /\ b <= 223 THEN 2
    ELSE IF b >= 224 /\ b <= 239 THEN 3
    ELSE IF b >= 240 /\ b <= 244 THEN 4
    ELSE 0

Utf8Point(b, n) ==
    IF n = 1 THEN b[1]
    ELSE IF n = 2 THEN (b[1] - 192) * 64 + (b[2] - 128)
    ELSE IF n = 3 THEN (b[1] - 224) * 4096 + (b[2] - 128) * 64 + (b[3] - 128)
    ELSE (b[1] - 240) * 262144 + (b[2] - 128) * 4096 + (b[3] - 128) * 64 + (b[4] - 128)

Utf8PointOk(c, n) ==
    IF n = 1 THEN TRUE
    ELSE IF n = 2 THEN c >= 128
    ELSE IF n = 3 THEN c >= 2048 /\ ~(c >= 55296 /\ c <= 57343)
    ELSE c >= 65536 /\ c <= 1114111

\* str::from_utf8: the text a byte string encodes, or an error
RECURSIVE from_utf8(_)
from_utf8(b) ==
    IF b = <<>> THEN [ok |-> TRUE, s |-> <<>>]
    ELSE LET n == Utf8Width(Head(b)) IN
         IF n = 0 \/ Len(b) < n THEN [ok |-> FALSE, s |-> <<>>]
         ELSE IF \E k \in 2..n : ~IsCont(b[k]) THEN [ok |-> FALSE, s |-> <<>>]
         ELSE LET c == Utf8Point(b, n) IN
              IF ~Utf8PointOk(c, n) THEN [ok |-> FALSE, s |-> <<>>]
              ELSE LET r == from_utf8(SubSeq(b, n + 1, Len(b))) IN
                   IF r.ok THEN [ok |-> TRUE, s |-> <<c>> \o r.s] ELSE r

\* ------------------------------------------------------------ hyper::header::Headers
\* A collection is a sequence of [name, raw]; names are unique ignoring ASCII case.
LowerChar(c) == IF c >= 65 /\ c <= 90 THEN c + 32 ELSE c
Lower(s) == [k \in 1..Len(s) |-> LowerChar(s[k])]
SameName(a, b) == Lower(a) = Lower(b)

HeadersNew == <<>>

Find(data, name) ==
    IF \E k \in 1..Len(data) : SameName(data[k].name, name)
    THEN CHOOSE k \in 1..Len(data) : SameName(data[k].name, name)
    ELSE 0

\* Headers::set_raw (hyper 0.10, VecMap::insert): insert, replacing the whole entry
\* of an equal name in place
set_raw(data, name, raw) ==
    LET pos == Find(data, name) IN
    IF pos = 0 THEN Append(data, [name |-> name, raw |-> raw])
    ELSE [data EXCEPT ![pos] = [name |-> name, raw |-> raw]]

\* Headers::get_raw
get_raw(data, name) ==
    LET pos == Find(data, name) IN
    IF pos = 0 THEN [some |-> FALSE, raw |-> <<>>]
    ELSE [some |-> TRUE, raw |-> data[pos].raw]

\* ------------------------------------------------------------ serde decoders
ExpectHeaders == "a map from header names to header values"
ExpectValue == "an array of strings and sequences of bytes"

\* String as Deserialize (the key type of visitor.visit::<String, Value>()).
\* serde 0.9: visit_str, visit_string, visit_unit, visit_bytes, visit_byte_buf.
StringDeserialize(k) ==
    CASE k.t = "text" -> Ok(k.v)
      [] k.t = "unit" -> Ok(<<>>)
      [] k.t = "bytes" ->
            LET r == from_utf8(k.v) IN
            IF r.ok THEN Ok(r.s) ELSE Err("invalid_value", "bytes", "a string")
      [] OTHER -> Err("invalid_type", k.t, "a string")

\* u8 as Deserialize: an integer in range
U8Ok(e) == e.t = "int" /\ e.v[1] >= 0 /\ e.v[1] <= 255

\* ByteBuf as Deserialize (the element type of visitor.visit::<ByteBuf>()).
\* serde 0.9: visit_unit, visit_seq of u8, visit_bytes, visit_byte_buf, visit_str, visit_string.
ByteBufDeserialize(e) ==
    CASE e.t = "text" -> Ok(as_bytes(e.v))
      [] e.t = "bytes" -> Ok(e.v)
      [] e.t = "unit" -> Ok(<<>>)
      [] e.t = "seq" ->
            IF \A k \in 1..Len(e.v) : U8Ok(e.v[k])
            THEN Ok([k \in 1..Len(e.v) |-> e.v[k].v[1]])
            ELSE Err("invalid_type", "element", "u8")
      [] OTHER -> Err("invalid_type", e.t, "byte array")

CapacityUnclamped(hint) == hint

\* let capacity = cmp::min(visitor.size_hint().0, 64);
Capacity(hint) == Min(hint, Clamp)

PushFront(values, b) == <<b>> \o values

\* values.push(v.into())
Push(values, b) == Append(values, b)

TryElemSkipping(values, r) ==
    IF r.kind = "err" THEN [failed |-> FALSE, values |-> values]
    ELSE [failed |-> FALSE, values |-> Push(values, r.v)]

\* visitor.visit::<ByteBuf>()? then values.push(v.into()): an error returns at once
TryElem(values, r) ==
    IF r.kind = "err" THEN [failed |-> TRUE, values |-> values]
    ELSE [failed |-> FALSE, values |-> Push(values, r.v)]

\* Value as Deserialize: deserialize_seq(ValueVisitor), which has visit_unit and visit_seq
ValueDispatch(x) ==
    CASE x.t = "unit" -> "visit_unit"
      [] x.t = "seq" -> "visit_seq"
      [] OTHER -> "invalid_type"

InsertAppending(hs, kv) ==
    LET pos == Find(hs, kv.name) IN
    IF pos = 0 THEN Append(hs, [name |-> kv.name, raw |-> kv.raw])
    ELSE [hs EXCEPT ![pos].raw = @ \o kv.raw]

InsertMovingToEnd(hs, kv) ==
    LET keep == SelectSeq(hs, LAMBDA h : ~SameName(h.name, kv.name)) IN
    Append(keep, [name |-> kv.name, raw |-> kv.raw])

\* headers.set_raw(k, v.0);
Insert(hs, kv) == set_raw(hs, kv.name, kv.raw)

DispatchSeqAsEmpty(x) ==
    CASE x.t = "unit" -> "visit_unit"
      [] x.t = "map" -> "visit_map"
      [] x.t = "seq" -> "visit_unit"
      [] OTHER -> "invalid_type"

\* deserializer.deserialize_map(HeadersVisitor): the visitor method the input selects
Dispatch(x) ==
    CASE x.t = "unit" -> "visit_unit"
      [] x.t = "map" -> "visit_map"
      [] OTHER -> "invalid_type"

\* ------------------------------------------------------------ the output sink
\* A sink logs every operation attempted on it; the operation numbered failAt
\* (0: none) returns the sink's error.
MapOp(n) == [op |-> "map", len |-> n, v |-> Unit]
KeyOp(name) == [op |-> "key", len |-> 0, v |-> Text(name)]
SeqOp(n) == [op |-> "seq", len |-> n, v |-> Unit]
ElemOp(x) == [op |-> "elem", len |-> 0, v |-> x]
SeqEndOp == [op |-> "seq_end", len |-> 0, v |-> Unit]
MapEndOp == [op |-> "map_end", len |-> 0, v |-> Unit]

SinkNew == [log |-> <<>>, failAt |-> 0]
SinkOp(s, op) == [s EXCEPT !.log = Append(@, op)]
Failed(s) == s.failAt # 0 /\ Len(s.log) >= s.failAt
Arm(s, f) == [s EXCEPT !.failAt = IF f = 0 THEN 0 ELSE Len(s.log) + f]
Settle(s) == IF Failed(s) THEN s ELSE [s EXCEPT !.failAt = 0]

\* The value a sink that builds a tree holds once the map is closed
RECURSIVE Build(_, _, _)
Build(log, k, st) ==
    IF k > Len(log) THEN st.entries
    ELSE LET o == log[k] IN
         CASE o.op = "key" -> Build(log, k + 1, [st EXCEPT !.key = o.v])
           [] o.op = "seq" -> Build(log, k + 1, [st EXCEPT !.hint = o.len, !.items = <<>>])
           [] o.op = "elem" -> Build(log, k + 1, [st EXCEPT !.items = Append(@, o.v)])
           [] o.op = "seq_end" ->
                Build(log, k + 1,
                      [st EXCEPT !.entries = Append(@, <<st.key, SeqV(st.hint, st.items)>>)])
           [] OTHER -> Build(log, k + 1, st)

Assemble(log) ==
    MapV(log[1].len, Build(log, 2, [entries |-> <<>>, key |-> Unit, hint |-> 0, items |-> <<>>]))

\* ------------------------------------------------------------ Ser<Headers>
ElementAlwaysText(b, p) ==
    IF from_utf8(b).ok THEN Text(from_utf8(b).s) ELSE Bytes(b)

ElementLossy(b, p) ==
    IF p THEN (IF from_utf8(b).ok THEN Text(from_utf8(b).s) ELSE Text(<<65533>>))
    ELSE Bytes(b)

\* if self.1 { if let Ok(v) = str::from_utf8(v) { text; continue } } bytes
Element(b, p) ==
    IF p /\ from_utf8(b).ok THEN Text(from_utf8(b).s) ELSE Bytes(b)

RECURSIVE SerElemsNoStop(_, _, _)
SerElemsNoStop(raw, p, s) ==
    IF raw = <<>> THEN s
    ELSE SerElemsNoStop(Tail(raw), p, SinkOp(s, ElemOp(Element(Head(raw), p))))

RECURSIVE SerElemsSkipInvalid(_, _, _)
SerElemsSkipInvalid(raw, p, s) ==
    IF raw = <<>> THEN s
    ELSE IF p /\ ~from_utf8(Head(raw)).ok THEN SerElemsSkipInvalid(Tail(raw), p, s)
    ELSE LET s1 == SinkOp(s, ElemOp(Element(Head(raw), p))) IN
         IF Failed(s1) THEN s1 ELSE SerElemsSkipInvalid(Tail(raw), p, s1)

\* for v in self.0 { serializer.serialize_element(..)?; }
RECURSIVE SerElems(_, _, _)
SerElems(raw, p, s) ==
    IF raw = <<>> THEN s
    ELSE LET s1 == SinkOp(s, ElemOp(Element(Head(raw), p))) IN
         IF Failed(s1) THEN s1 ELSE SerElems(Tail(raw), p, s1)

\* Value::serialize: serialize_seq(Some(len))?, the elements, end()
ValueSerialize(raw, p, s) ==
    LET s1 == SinkOp(s, SeqOp(Len(raw))) IN
    IF Failed(s1) THEN s1
    ELSE LET s2 == SerElems(raw, p, s1) IN
         IF Failed(s2) THEN s2 ELSE SinkOp(s2, SeqEndOp)

\* one iteration of `for header in self.v.iter()`:
\* name(), get_raw(name).unwrap(), serialize_entry(name, &Value(value, pretty))?
EntrySerialize(hs, idx, p, s) ==
    LET name == hs[idx].name
        g == get_raw(hs, name)
    IN IF ~g.some THEN [sink |-> s, panic |-> TRUE]
       ELSE LET s1 == SinkOp(s, KeyOp(name)) IN
            IF Failed(s1) THEN [sink |-> s1, panic |-> FALSE]
            ELSE [sink |-> ValueSerialize(g.raw, p, s1), panic |-> FALSE]

\* ------------------------------------------------------------ inputs
SeqsUpTo(S, n) == UNION {[1..k -> S] : k \in 0..n}

NameSet == {<<97>>, <<65>>, <<98>>}
ByteStrs == {<<65>>, <<255>>, <<195, 169>>}
RawLists == SeqsUpTo(ByteStrs, MaxVals)
NameSeqs ==
    {ns \in SeqsUpTo(NameSet, MaxNames) :
        \A a, b \in 1..Len(ns) : a # b => ~SameName(ns[a], ns[b])}
\* every Headers value over the alphabets: names unique ignoring case
Collections ==
    UNION {{[k \in 1..Len(ns) |-> [name |-> ns[k], raw |-> rs[k]]] :
               rs \in [1..Len(ns) -> RawLists]} : ns \in NameSeqs}

Hints == {0, 2, Clamp, Clamp + 1, 10000}
LongLens == {Clamp, Clamp + 1}
ElemValues ==
    {Unit, BoolV(1), IntV(7), FloatV(1), Text(<<97>>), Text(<<233>>), Bytes(<<65>>),
     Bytes(<<255>>), SeqV(2, <<IntV(65), IntV(255)>>), SeqV(1, <<IntV(256)>>),
     SeqV(1, <<BoolV(1)>>), MapV(0, <<>>)}
FineSeqs ==
    {SeqV(h, items) : h \in Hints, items \in SeqsUpTo(ElemValues, MaxElems)}
      \cup {SeqV(h, [k \in 1..n |-> Bytes(<<65>>)]) : h \in Hints, n \in LongLens}
CoarseKeys == {Text(<<97>>), Text(<<65>>), Text(<<98>>), IntV(7)}
CoarseValues == {Unit, SeqV(1, <<Bytes(<<65>>)>>), SeqV(1, <<Text(<<233>>)>>)}
ProbeKeys ==
    {Text(<<97>>), Unit, BoolV(1), IntV(7), FloatV(1), Bytes(<<98>>), Bytes(<<255>>),
     SeqV(0, <<>>), MapV(0, <<>>)}
ProbeValues ==
    {Unit, BoolV(1), IntV(7), FloatV(1), Text(<<97>>), Bytes(<<65>>), MapV(0, <<>>),
     SeqV(2, <<Bytes(<<255>>), Bytes(<<65>>)>>), SeqV(1, <<BoolV(1)>>)}
GoodEntry == <<Text(<<98>>), SeqV(1, <<Bytes(<<65>>)>>)>>
ProbeMaps ==
    UNION {{<<e>>, <<GoodEntry, e>>, <<e, GoodEntry>>} : e \in ProbeKeys \X ProbeValues}
TopScalars ==
    {Unit, BoolV(1), IntV(7), FloatV(1), Text(<<97>>), Bytes(<<65>>), SeqV(0, <<>>)}
DecodeInputs ==
    TopScalars
      \cup {MapV(Len(es), es) : es \in SeqsUpTo(CoarseKeys \X CoarseValues, MaxEntries)}
      \cup {MapV(Len(es), es) : es \in ProbeMaps}
      \cup {MapV(1, <<<<Text(<<97>>), x>>>>) : x \in FineSeqs}

\* ------------------------------------------------------------ state
VARIABLES pc, v, pretty, sink, i, serResult, input, consumed, headers, key, values, taken,
          capacity, deResult

vars == <<pc, v, pretty, sink, i, serResult, input, consumed, headers, key, values, taken,
          capacity, deResult>>

None == [kind |-> "none"]
SinkError == [kind |-> "err", type |-> "sink"]
Panic == [kind |-> "panic"]

InitSer ==
    /\ pc = "serialize"
    /\ v \in Collections
    /\ pretty \in BOOLEAN
    /\ input = Unit

InitDe ==
    /\ pc = "deserialize"
    /\ v = <<>>
    /\ pretty = FALSE
    /\ input \in DecodeInputs

Init ==
    /\ (InitSer \/ InitDe)
    /\ sink = SinkNew
    /\ i = 0
    /\ serResult = None
    /\ consumed = 0
    /\ headers = HeadersNew
    /\ key = <<>>
    /\ values = <<>>
    /\ taken = 0
    /\ capacity = 0
    /\ deResult = None

deVars == <<input, consumed, headers, key, values, taken, capacity, deResult>>
serVars == <<v, pretty, sink, i, serResult>>

\* let mut serializer = serializer.serialize_map(Some(self.v.len()))?;
SerializeMap ==
    /\ pc = "serialize"
    /\ \E f \in 0..1 :
         LET s1 == SinkOp(Arm(sink, f), MapOp(Len(v))) IN
         /\ sink' = Settle(s1)
         /\ pc' = IF Failed(s1) THEN "done" ELSE "entries"
         /\ serResult' = IF Failed(s1) THEN SinkError ELSE serResult
    /\ UNCHANGED <<v, pretty, i, deVars>>

\* the body of `for header in self.v.iter()`
SerializeEntry ==
    /\ pc = "entries"
    /\ i < Len(v)
    /\ \E f \in 0..(3 + MaxVals) :
         LET r == EntrySerialize(v, i + 1, pretty, Arm(sink, f)) IN
         /\ sink' = Settle(r.sink)
         /\ i' = i + 1
         /\ pc' = IF r.panic \/ Failed(r.sink) THEN "done" ELSE "entries"
         /\ serResult' = IF r.panic THEN Panic
                         ELSE IF Failed(r.sink) THEN SinkError ELSE serResult
    /\ UNCHANGED <<v, pretty, deVars>>

\* serializer.end()
SerializeEnd ==
    /\ pc = "entries"
    /\ i = Len(v)
    /\ \E f \in 0..1 :
         LET s1 == SinkOp(Arm(sink, f), MapEndOp) IN
         /\ sink' = Settle(s1)
         /\ pc' = IF Failed(s1) THEN "done" ELSE "serialized"
         /\ serResult' = IF Failed(s1) THEN SinkError ELSE Ok(Len(s1.log))
    /\ UNCHANGED <<v, pretty, i, deVars>>

\* the value the sink built is handed to De<Headers>::deserialize
RoundTrip ==
    /\ pc = "serialized"
    /\ input' = Assemble(sink.log)
    /\ pc' = "deserialize"
    /\ UNCHANGED <<serVars, consumed, headers, key, values, taken, capacity, deResult>>

\* deserializer.deserialize_map(HeadersVisitor); visit_unit; the default visit_*;
\* visit_map up to `let mut headers = Headers::new();`
Deserialize ==
    /\ pc = "deserialize"
    /\ LET d == Dispatch(input) IN
       /\ pc' = IF d = "visit_map" THEN "visit_map" ELSE "done"
       /\ deResult' = CASE d = "visit_unit" -> Ok(HeadersNew)
                        [] d = "visit_map" -> deResult
                        [] OTHER -> Err("invalid_type", input.t, ExpectHeaders)
    /\ headers' = HeadersNew
    /\ UNCHANGED <<serVars, input, consumed, key, values, taken, capacity>>

\* visitor.visit::<String, Value>()?: the key, then the value up to the start of
\* its sequence (a unit value is complete at once and is inserted)
VisitMapNext ==
    /\ pc = "visit_map"
    /\ consumed < Len(input.v)
    /\ consumed' = consumed + 1
    /\ LET e == input.v[consumed + 1]
           k == StringDeserialize(e[1])
           d == ValueDispatch(e[2])
       IN IF k.kind = "err"
          THEN /\ deResult' = k
               /\ pc' = "done"
               /\ headers' = HeadersNew
               /\ UNCHANGED <<key, values, taken, capacity>>
          ELSE IF d = "visit_unit"
          THEN /\ headers' = Insert(headers, [name |-> k.v, raw |-> <<>>])
               /\ UNCHANGED <<pc, deResult, key, values, taken, capacity>>
          ELSE IF d = "visit_seq"
          THEN /\ capacity' = Capacity(e[2].hint)
               /\ values' = <<>>
               /\ taken' = 0
               /\ key' = k.v
               /\ pc' = "visit_seq"
               /\ UNCHANGED <<headers, deResult>>
          ELSE /\ deResult' = Err("invalid_type", e[2].t, ExpectValue)
               /\ pc' = "done"
               /\ headers' = HeadersNew
               /\ UNCHANGED <<key, values, taken, capacity>>
    /\ UNCHANGED <<serVars, input>>

\* one iteration of `while let Some(v) = visitor.visit::<ByteBuf>()?` in visit_seq
VisitSeqNext ==
    /\ pc = "visit_seq"
    /\ taken < Len(input.v[consumed][2].v)
    /\ taken' = taken + 1
    /\ LET r == ByteBufDeserialize(input.v[consumed][2].v[taken + 1])
           t == TryElem(values, r)
       IN /\ values' = t.values
          /\ pc' = IF t.failed THEN "done" ELSE "visit_seq"
          /\ deResult' = IF t.failed THEN r ELSE deResult
          /\ headers' = IF t.failed THEN HeadersNew ELSE headers
    /\ UNCHANGED <<serVars, input, consumed, key, capacity>>

\* Ok(Value(values)), then headers.set_raw(k, v.0) in visit_map
VisitSeqEnd ==
    /\ pc = "visit_seq"
    /\ taken = Len(input.v[consumed][2].v)
    /\ headers' = Insert(headers, [name |-> key, raw |-> values])
    /\ pc' = "visit_map"
    /\ UNCHANGED <<serVars, input, consumed, key, values, taken, capacity, deResult>>

\* Ok(De::new(headers))
VisitMapEnd ==
    /\ pc = "visit_map"
    /\ consumed = Len(input.v)
    /\ deResult' = Ok(headers)
    /\ pc' = "done"
    /\ UNCHANGED <<serVars, input, consumed, headers, key, values, taken, capacity>>

Next ==
    \/ SerializeMap
    \/ SerializeEntry
    \/ SerializeEnd
    \/ RoundTrip
    \/ Deserialize
    \/ VisitMapNext
    \/ VisitSeqNext
    \/ VisitSeqEnd
    \/ VisitMapEnd

Spec == Init /\ [][Next]_vars

TypeOK ==
    /\ pc \in {"serialize", "entries", "serialized", "deserialize", "visit_map", "visit_seq",
             "done"}
    /\ serResult.kind \in {"none", "ok", "err", "panic"}
    /\ deResult.kind \in {"none", "ok", "err"}

\* ------------------------------------------------------------ properties
Returned == pc \in {"visit_map", "done"} /\ input.t = "map" /\ consumed >= 1
DecodedName(e) == StringDeserialize(e[1]).v
ElemsOf(log) == SelectSeq(log, LAMBDA o : o.op = "elem")

RECURSIVE Flat(_)
Flat(hs) == IF hs = <<>> THEN <<>> ELSE Head(hs).raw \o Flat(Tail(hs))

RECURSIVE FirstOcc(_, _)
FirstOcc(names, seen) ==
    IF names = <<>> THEN <<>>
    ELSE IF Head(names) \in seen THEN FirstOcc(Tail(names), seen)
    ELSE <<Head(names)>> \o FirstOcc(Tail(names), seen \cup {Head(names)})

FirstIdx(es, P(_)) ==
    CHOOSE k \in 1..Len(es) : P(es[k]) /\ \A m \in 1..(k - 1) : ~P(es[m])

ElemBytes(x) ==
    CASE x.t = "text" -> as_bytes(x.v)
      [] x.t = "bytes" -> x.v
      [] x.t = "unit" -> <<>>
      [] OTHER -> [k \in 1..Len(x.v) |-> x.v[k].v[1]]

ExpectedRaw(x) == IF x.t = "unit" THEN <<>> ELSE [j \in 1..Len(x.v) |-> ElemBytes(x.v[j])]

ElemAccepted(x) ==
    \/ x.t \in {"text", "bytes", "unit"}
    \/ x.t = "seq" /\ \A k \in 1..Len(x.v) : x.v[k].t = "int" /\ x.v[k].v[1] \in 0..255

KeyRejected(k) ==
    \/ k.t \in {"bool", "int", "float", "seq", "map"}
    \/ k.t = "bytes" /\ ~from_utf8(k.v).ok

ValueRejected(x) ==
    \/ x.t \notin {"unit", "seq"}
    \/ x.t = "seq" /\ \E j \in 1..Len(x.v) : ~ElemAccepted(x.v[j])

BadEntry(e) == KeyRejected(e[1]) \/ ValueRejected(e[2])

ExpectedError(e) ==
    IF KeyRejected(e[1]) THEN StringDeserialize(e[1])
    ELSE IF e[2].t \notin {"unit", "seq"} THEN Err("invalid_type", e[2].t, ExpectValue)
    ELSE ByteBufDeserialize(e[2].v[CHOOSE j \in 1..Len(e[2].v) :
                                      /\ ~ElemAccepted(e[2].v[j])
                                      /\ \A m \in 1..(j - 1) : ElemAccepted(e[2].v[m])])
BadEntryNonText(e) == e[1].t # "text" \/ ValueRejected(e[2])

\* C1: decoding what encode emitted, in either mode, succeeds and yields the
\* encoded collection: same names, same order, same value lists, same bytes
\* (so the pretty and the compact form decode to the same collection).
C1_RoundTrip ==
    (pc = "done" /\ serResult.kind = "ok") => deResult = Ok(v)

C1_Witness ==
    /\ pc = "done" /\ serResult.kind = "ok" /\ pretty
    /\ Len(v) = 2 /\ v[1].raw = <<<<255>>, <<195, 169>>>>
    /\ deResult = Ok(v)

\* C2: every stored byte string is emitted as exactly one element; it is a text
\* holding the same string iff pretty is set and the bytes are valid UTF-8, and
\* otherwise a byte-sequence holding the raw bytes (always so in compact mode).
C2_ElementVariant ==
    serResult.kind = "ok" =>
        LET es == ElemsOf(sink.log)
            bs == Flat(v)
        IN /\ Len(es) = Len(bs)
           /\ \A k \in 1..Len(bs) :
                LET x == es[k].v
                    b == bs[k]
                IN /\ x.t \in {"text", "bytes"}
                   /\ (x.t = "text") <=> (pretty /\ from_utf8(b).ok)
                   /\ x.t = "text" => as_bytes(x.v) = b
                   /\ x.t = "bytes" => x.v = b
                   /\ ~pretty => x.t = "bytes"

C2_Witness ==
    /\ serResult.kind = "ok" /\ pretty
    /\ Len(v) >= 1 /\ v[1].raw = <<<<195, 169>>, <<255>>>>
    /\ ElemsOf(sink.log)[1].v = Text(<<233>>)
    /\ ElemsOf(sink.log)[2].v = Bytes(<<255>>)

\* C3: the capacity reserved for a value list is min(hint, 64), never more than
\* 64, and the decoded list has as many values as elements were supplied,
\* whatever the hint says.
C3_CapacityClamp ==
    (pc \in {"visit_seq", "visit_map", "done"} /\ input.t = "map" /\ consumed >= 1) =>
        LET e == input.v[consumed]
            k == StringDeserialize(e[1])
        IN (k.kind = "ok" /\ e[2].t = "seq") =>
              /\ capacity = (IF e[2].hint < 64 THEN e[2].hint ELSE 64)
              /\ capacity <= 64
              /\ (pc # "visit_seq" /\ \A j \in 1..Len(e[2].v) : ElemAccepted(e[2].v[j])) =>
                    /\ deResult.kind # "err"
                    /\ Len(get_raw(headers, k.v).raw) = Len(e[2].v)

C3_Witness ==
    /\ Returned /\ pc = "done" /\ deResult.kind = "ok"
    /\ input.v[1][2].t = "seq" /\ input.v[1][2].hint = 10000 /\ Len(input.v[1][2].v) = 2
    /\ capacity = 64
    /\ Len(deResult.v[1].raw) = 2

\* C4: a name that occurs several times in the input map ends with exactly one
\* entry, holding the value list of its last occurrence only.
C4_LastWins ==
    (pc = "done" /\ deResult.kind = "ok" /\ input.t = "map") =>
        LET hs == deResult.v
            es == input.v
        IN \A k \in 1..Len(es) :
              /\ Cardinality({a \in 1..Len(hs) :
                                SameName(hs[a].name, DecodedName(es[k]))}) = 1
              /\ (\A m \in (k + 1)..Len(es) :
                     ~SameName(DecodedName(es[m]), DecodedName(es[k])))
                 => get_raw(hs, DecodedName(es[k])).raw = ExpectedRaw(es[k][2])

C4_Witness ==
    /\ pc = "done" /\ deResult.kind = "ok" /\ input.t = "map" /\ Len(input.v) = 2
    /\ input.v[1] = <<Text(<<97>>), SeqV(1, <<Bytes(<<65>>)>>)>>
    /\ input.v[2] = <<Text(<<97>>), SeqV(1, <<Text(<<233>>)>>)>>
    /\ deResult.v = <<[name |-> <<97>>, raw |-> <<<<195, 169>>>>]>>

\* C5: encode emits one map with one entry per stored name in stored order, each
\* value a sequence with one element per stored byte string in stored order, and
\* the declared lengths equal the numbers of entries and elements emitted.
C5_Shape ==
    serResult.kind = "ok" =>
        LET w == Assemble(sink.log) IN
        /\ sink.log[1].op = "map" /\ sink.log[Len(sink.log)].op = "map_end"
        /\ Len(sink.log) = 2 + 3 * Len(v) + Len(Flat(v))
        /\ w.hint = Len(w.v) /\ Len(w.v) = Len(v)
        /\ \A k \in 1..Len(v) :
              /\ w.v[k][1] = Text(v[k].name)
              /\ w.v[k][2].t = "seq"
              /\ w.v[k][2].hint = Len(w.v[k][2].v)
              /\ Len(w.v[k][2].v) = Len(v[k].raw)
              /\ \A j \in 1..Len(v[k].raw) : ElemBytes(w.v[k][2].v[j]) = v[k].raw[j]

C5_Witness ==
    /\ serResult.kind = "ok" /\ pc = "serialized"
    /\ Len(v) = 2 /\ v[1].raw = <<<<255>>, <<65>>>> /\ v[2].raw = <<>>
    /\ Len(sink.log) = 10

\* C6: decode dispatches on the top-level variant: unit gives the empty
\* collection, a map is decoded entry by entry, anything else is a type
\* mismatch expecting "a map from header names to header values".
C6_Dispatch ==
    (pc = "done" /\ serResult.kind = "none") =>
        /\ input.t = "unit" => deResult = Ok(<<>>)
        /\ input.t = "map" =>
              /\ deResult.kind = "ok" => consumed = Len(input.v)
              /\ deResult.kind = "err" =>
                    consumed >= 1 /\ deResult = ExpectedError(input.v[consumed])
        /\ input.t \notin {"unit", "map"} =>
              /\ deResult = Err("invalid_type", input.t,
                                "a map from header names to header values")
              /\ consumed = 0

C6_Witness ==
    /\ pc = "done" /\ serResult.kind = "none" /\ input = SeqV(0, <<>>)
    /\ deResult.kind = "err" /\ deResult.expecting = ExpectHeaders

\* C7 as stated: any entry with a non-text key, a value that is neither unit
\* nor a sequence, or an unacceptable element fails the whole decode at the
\* first such entry.
C7_Original ==
    (pc = "done" /\ input.t = "map"
       /\ \E k \in 1..Len(input.v) : BadEntryNonText(input.v[k])) =>
        /\ deResult.kind = "err"
        /\ consumed = FirstIdx(input.v, BadEntryNonText)

\* C7 (amended): decode is all-or-nothing. If an entry has a key the name
\* decoder rejects (boolean, integer, float, sequence, map, or bytes that are
\* not UTF-8), a value that is neither unit nor a sequence, or a sequence with
\* an unacceptable element, decode returns the error of the first such entry,
\* consumes no later entry and returns no collection.
C7_AllOrNothing ==
    (pc = "done" /\ input.t = "map" /\ \E k \in 1..Len(input.v) : BadEntry(input.v[k])) =>
        LET f == FirstIdx(input.v, BadEntry) IN
        /\ deResult.kind = "err"
        /\ deResult = ExpectedError(input.v[f])
        /\ consumed = f
        /\ "v" \notin DOMAIN deResult

C7_Witness ==
    /\ pc = "done" /\ input.t = "map" /\ Len(input.v) = 3
    /\ ~BadEntry(input.v[1]) /\ BadEntry(input.v[2]) /\ ~BadEntry(input.v[3])
    /\ deResult.kind = "err" /\ consumed = 2

\* C8: encode fails only through the sink: it never aborts, it returns an error
\* only when a sink operation failed, and the failed operation is the last one
\* it attempts.
C8_SinkOnly ==
    /\ serResult.kind # "panic"
    /\ serResult.kind = "err" =>
          /\ Failed(sink) /\ Len(sink.log) = sink.failAt /\ pc = "done"
    /\ Failed(sink) => serResult = SinkError
    /\ (~Failed(sink) /\ pc \notin {"serialize", "entries"} /\ serResult.kind # "none") =>
          /\ serResult.kind = "ok"
          /\ Len(sink.log) = 2 + 3 * Len(v) + Len(Flat(v))

C8_Witness ==
    /\ serResult = SinkError /\ pc = "done"
    /\ Len(v) = 2 /\ i = 1 /\ Len(v[1].raw) = 2
    /\ sink.log[Len(sink.log)].op = "elem" /\ Len(sink.log) = 4

C10_FirstOccurrenceOrder ==
    (pc = "done" /\ deResult.kind = "ok" /\ input.t = "map") =>
        [k \in 1..Len(deResult.v) |-> Lower(deResult.v[k].name)]
          = FirstOcc([k \in 1..Len(input.v) |-> Lower(DecodedName(input.v[k]))], {})

C10_Witness ==
    /\ pc = "done" /\ deResult.kind = "ok" /\ input.t = "map" /\ Len(input.v) = 3
    /\ input.v[1][1] = Text(<<97>>) /\ input.v[2][1] = Text(<<98>>)
    /\ input.v[3][1] = Text(<<65>>)
    /\ Len(deResult.v) = 2
    /\ Lower(deResult.v[1].name) = <<97>> /\ deResult.v[2].name = <<98>>

====
